---- MODULE Spec2Model ----
(***************************************************************************)
(* Model of snips-nlu-ontology/src/builtin_entity.rs: the builtin entity   *)
(* kind registry (identifier, from_identifier, examples,                   *)
(* supported_languages, result_description) and the serialization of a     *)
(* BuiltinEntity record.  The library holds no mutable state of its own;   *)
(* the state of the model is a caller that invokes one operation at a time *)
(* and observes what it returns.                                           *)
(*                                                                         *)
(* Conventions.  Kinds and languages are their variant names.  A Rust      *)
(* Result is <<"Ok", v>> or <<"Err", <<message, detail>>>>, an Option is   *)
(* <<"Some", v>> or <<"None">>.                                            *)
(* A SlotValue is <<variant, fields of its value>>.  An f64                *)
(* is held in hundredths (10.05 is 1005, 20. is 2000).                     *)
(* Characters outside ASCII in string literals are written {U+XXXX}.       *)
(***************************************************************************)
EXTENDS FiniteSets, Integers, Sequences, TLC

VARIABLES op, arg, ret

vars == <<op, arg, ret>>

\* Largest offset drawn for the start and the end of a BuiltinEntity range.
MaxOffset == 1

Ok(v) == <<"Ok", v>>

Err(e) == <<"Err", e>>

IsOk(r) == r[1] = "Ok"

IsErr(r) == r[1] = "Err"

Some(v) == <<"Some", v>>

None == <<"None">>

Range(s) == {s[i] : i \in DOMAIN s}

\* enum_kind!(BuiltinEntityKind, [...]): all() lists the variants in order.
all ==
    << "AmountOfMoney", "Duration", "Number", "Ordinal", "Temperature",
       "Time", "Percentage" >>

BuiltinEntityKind == Range(all)

\* The six variants of Language, as matched in examples().
Language == {"DE", "EN", "ES", "FR", "JA", "KO"}

\* A copy-and-paste slip in the identifier table: Percentage reuses Number's.
identifier_duplicated(self) ==
    CASE self = "AmountOfMoney" -> "snips/amountOfMoney"
      [] self = "Duration" -> "snips/duration"
      [] self = "Number" -> "snips/number"
      [] self = "Ordinal" -> "snips/ordinal"
      [] self = "Temperature" -> "snips/temperature"
      [] self = "Time" -> "snips/datetime"
      [] self = "Percentage" -> "snips/number"

identifier(self) ==
    CASE self = "AmountOfMoney" -> "snips/amountOfMoney"
      [] self = "Duration" -> "snips/duration"
      [] self = "Number" -> "snips/number"
      [] self = "Ordinal" -> "snips/ordinal"
      [] self = "Temperature" -> "snips/temperature"
      [] self = "Time" -> "snips/datetime"
      [] self = "Percentage" -> "snips/percentage"

\* format_err!("Unknown EntityKind identifier: {}", identifier)
UnknownIdentifier(id) == <<"Unknown EntityKind identifier: ", id>>

\* The first kind of all() that satisfies the predicate of find().
Matches(id) == {i \in DOMAIN all : identifier(all[i]) = id}

First(hits) == CHOOSE i \in hits : \A j \in hits : i <= j

\* A lookup that falls back on a kind instead of failing.
from_identifier_defaulting(id) ==
    IF Matches(id) = {} THEN Ok("Number") ELSE Ok(all[First(Matches(id))])

from_identifier(id) ==
    IF Matches(id) = {}
    THEN Err(UnknownIdentifier(id))
    ELSE Ok(all[First(Matches(id))])

de_examples(self) ==
    CASE self = "AmountOfMoney" ->
           << "10$", "ungef{U+00E4}hr 5{U+20AC}", "zwei tausend Dollar" >>
      [] self = "Duration" ->
           << "2stdn", "drei monate", "ein halbe Stunde", "8 Jahre und zwei Tage" >>
      [] self = "Number" ->
           << "2001", "einundzwanzig", "zwei tausend", "zwei tausend und drei" >>
      [] self = "Ordinal" ->
           << "Erste", "der zweite", "zwei und zwanzigster" >>
      [] self = "Temperature" ->
           << "70K", "3{U+00B0}C", "Dreiundzwanzig Grad", "zweiunddrei{U+00DF}ig Grad Fahrenheit" >>
      [] self = "Time" ->
           << "Heute", "16.30 Uhr", "in 1 Stunde", "dritter Dienstag im Juni" >>
      [] self = "Percentage" ->
           << "25%", "zwanzig Prozent", "zwei tausend und f{U+00FC}nfzig Prozent" >>

en_examples(self) ==
    CASE self = "AmountOfMoney" ->
           << "10$", "around 5{U+20AC}", "ten dollars and five cents" >>
      [] self = "Duration" ->
           << "1h", "3 months", "half an hour", "8 years and two days" >>
      [] self = "Number" ->
           << "2001", "twenty one", "three hundred and four" >>
      [] self = "Ordinal" ->
           << "1st", "the second", "the twenty third" >>
      [] self = "Temperature" ->
           << "70K", "3{U+00B0}C", "Twenty three degrees", "one hundred degrees fahrenheit" >>
      [] self = "Time" ->
           << "Today", "4:30 pm", "in 1 hour", "3rd tuesday of June" >>
      [] self = "Percentage" ->
           << "25%", "twenty percent", "two hundred and fifty percents" >>

es_examples(self) ==
    CASE self = "AmountOfMoney" ->
           << "10$", "cinco euros", "diez d{U+00F3}lares y cinco centavos" >>
      [] self = "Duration" ->
           << "1h", "3 meses" >>
      [] self = "Number" ->
           << "2001", "diez y ocho" >>
      [] self = "Ordinal" ->
           << "primer" >>
      [] self = "Temperature" ->
           << "70K", "3{U+00B0}C", "veintitr{U+00E9}s grados" >>
      [] self = "Time" ->
           << "hoy", "esta noche", "a la 1:30", "el primer jueves de junio" >>
      [] self = "Percentage" ->
           << "25%", "quince porcientos", "20 por ciento" >>

fr_examples(self) ==
    CASE self = "AmountOfMoney" ->
           << "10$", "environ 5{U+20AC}", "dix dollars et cinq centimes" >>
      [] self = "Duration" ->
           << "1h", "3 mois", "une demi heure", "8 ans et deux jours" >>
      [] self = "Number" ->
           << "2001", "vingt deux", "deux cent trois", "quatre vingt dix neuf" >>
      [] self = "Ordinal" ->
           << "1er", "le deuxi{U+00E8}me", "vingt et unieme" >>
      [] self = "Temperature" ->
           << "70K", "3{U+00B0}C", "vingt trois degr{U+00E9}s", "deux cent degr{U+00E9}s Fahrenheit" >>
      [] self = "Time" ->
           << "Aujourd'hui", "{U+00E0} 14:30", "dans 1 heure", "le premier jeudi de Juin" >>
      [] self = "Percentage" ->
           << "25%", "20 pourcents", "quatre vingt dix pourcents" >>

\* Japanese left without any example at all.
ja_examples_none(self) ==
    CASE self = "AmountOfMoney" -> << >>
      [] self = "Duration" -> << >>
      [] self = "Number" -> << >>
      [] self = "Ordinal" -> << >>
      [] self = "Temperature" -> << >>
      [] self = "Time" -> << >>
      [] self = "Percentage" -> << >>

ja_examples(self) ==
    CASE self = "AmountOfMoney" -> << >>
      [] self = "Duration" -> << >>
      [] self = "Number" ->
           << "{U+5341}{U+4E8C}", "{U+4E8C}{U+5343}{U+4E94}", "{U+56DB}{U+5343}{U+4E09}{U+767E}{U+4E8C}" >>
      [] self = "Ordinal" -> << >>
      [] self = "Temperature" -> << >>
      [] self = "Time" -> << >>
      [] self = "Percentage" -> << >>

ko_examples(self) ==
    CASE self = "AmountOfMoney" ->
           << "10$", "{U+C57D} 5 {U+C720}{U+B85C}", "10 {U+B2EC}{U+B7EC} 5 {U+C13C}{U+D2B8}" >>
      [] self = "Duration" ->
           << "{U+C591}{U+C77C}", "1{U+C2DC}{U+AC04}", "3 {U+AC1C}{U+C6D4}" >>
      [] self = "Number" ->
           << "2001", "{U+C0BC}{U+CC9C}", "{U+C2A4}{U+BB3C} {U+B458}", "{U+CC9C} {U+C544}{U+D754} {U+C544}{U+D649}" >>
      [] self = "Ordinal" ->
           << "{U+CCAB}", "{U+CCAB}{U+BC88}{U+C9F8}" >>
      [] self = "Temperature" ->
           << "5{U+B3C4}", "{U+C12D}{U+C528} 20{U+B3C4}", "{U+D654}{U+C528} {U+BC31} {U+B3C4}" >>
      [] self = "Time" ->
           << "{U+C624}{U+B298}", "14{U+C2DC} 30 {U+BD84}{U+C5D0}", "5 {U+C6D4} {U+CCAB}{U+C9F8} {U+BAA9}{U+C694}{U+C77C}" >>
      [] self = "Percentage" -> << >>

\* The Korean arm dispatching to the English examples.
examples_ko_as_en(self, language) ==
    CASE language = "DE" -> de_examples(self)
      [] language = "EN" -> en_examples(self)
      [] language = "ES" -> es_examples(self)
      [] language = "FR" -> fr_examples(self)
      [] language = "JA" -> ja_examples(self)
      [] language = "KO" -> en_examples(self)

examples(self, language) ==
    CASE language = "DE" -> de_examples(self)
      [] language = "EN" -> en_examples(self)
      [] language = "ES" -> es_examples(self)
      [] language = "FR" -> fr_examples(self)
      [] language = "JA" -> ja_examples(self)
      [] language = "KO" -> ko_examples(self)

\* Percentage listed with all six languages, like the other kinds.
supported_languages_all_six(self) ==
    << "DE", "EN", "ES", "FR", "JA", "KO" >>

supported_languages(self) ==
    CASE self = "AmountOfMoney" -> << "DE", "EN", "ES", "FR", "JA", "KO" >>
      [] self = "Duration" -> << "DE", "EN", "ES", "FR", "JA", "KO" >>
      [] self = "Number" -> << "DE", "EN", "ES", "FR", "JA", "KO" >>
      [] self = "Ordinal" -> << "DE", "EN", "ES", "FR", "JA", "KO" >>
      [] self = "Temperature" -> << "DE", "EN", "ES", "FR", "JA", "KO" >>
      [] self = "Time" -> << "DE", "EN", "ES", "FR", "JA", "KO" >>
      [] self = "Percentage" -> << "DE", "EN", "ES", "FR", "JA" >>

(***************************************************************************)
(* The value model, as result_description() and the tests construct it.    *)
(***************************************************************************)
AmountOfMoneyValue(value, precision, unit) ==
    <<"AmountOfMoney", [value |-> value, precision |-> precision,
     unit |-> unit]>>

DurationValue(years, quarters, months, weeks, days, hours, minutes, seconds, precision) ==
    <<"Duration", [years |-> years, quarters |-> quarters,
     months |-> months, weeks |-> weeks, days |-> days, hours |-> hours,
     minutes |-> minutes, seconds |-> seconds, precision |-> precision]>>

NumberValue(value) == <<"Number", [value |-> value]>>

OrdinalValue(value) == <<"Ordinal", [value |-> value]>>

TemperatureValue(value, unit) ==
    <<"Temperature", [value |-> value, unit |-> unit]>>

InstantTimeValue(value, grain, precision) ==
    <<"InstantTime", [value |-> value, grain |-> grain,
     precision |-> precision]>>

TimeIntervalValue(from, to) ==
    <<"TimeInterval", [from |-> from, to |-> to]>>

PercentageValue(value) == <<"Percentage", [value |-> value]>>

(***************************************************************************)
(* The encoding layer.  An encoded value is a tagged pair: a string, an    *)
(* integer, a float, null, a list, or an object, which is the sequence of  *)
(* its <<name, value>> fields in the order they were written.              *)
(***************************************************************************)
JStr(s) == <<"str", s>>

JInt(n) == <<"int", n>>

JF64(h) == <<"f64", h>>

JNull == <<"null", "null">>

JArr(items) == <<"arr", items>>

JObj(fields) == <<"obj", fields>>

JOpt(o) == IF o[1] = "Some" THEN JStr(o[2]) ELSE JNull

FieldNames(j) == [i \in DOMAIN j[2] |-> j[2][i][1]]

HasField(j, name) == \E i \in DOMAIN j[2] : j[2][i][1] = name

Field(j, name) ==
    j[2][CHOOSE i \in DOMAIN j[2] :
            /\ j[2][i][1] = name
            /\ \A m \in DOMAIN j[2] : j[2][m][1] = name => i <= m][2]

\* A field is readable when it is present and holds a value of a wanted type.
Reads(j, name, types) == HasField(j, name) /\ Field(j, name)[1] \in types

OptOf(v) == IF v[1] = "null" THEN None ELSE Some(v[2])

\* SlotValue is written with its variant name under "kind", then the
\* fields of the variant's value in declaration order.
serialize_SlotValue(v) ==
    CASE v[1] = "AmountOfMoney" ->
           JObj(<< <<"kind", JStr("AmountOfMoney")>>,
                   <<"value", JF64(v[2].value)>>,
                   <<"precision", JStr(v[2].precision)>>,
                   <<"unit", JOpt(v[2].unit)>> >>)
      [] v[1] = "Duration" ->
           JObj(<< <<"kind", JStr("Duration")>>,
                   <<"years", JInt(v[2].years)>>,
                   <<"quarters", JInt(v[2].quarters)>>,
                   <<"months", JInt(v[2].months)>>,
                   <<"weeks", JInt(v[2].weeks)>>,
                   <<"days", JInt(v[2].days)>>,
                   <<"hours", JInt(v[2].hours)>>,
                   <<"minutes", JInt(v[2].minutes)>>,
                   <<"seconds", JInt(v[2].seconds)>>,
                   <<"precision", JStr(v[2].precision)>> >>)
      [] v[1] = "Number" ->
           JObj(<< <<"kind", JStr("Number")>>, <<"value", JF64(v[2].value)>> >>)
      [] v[1] = "Ordinal" ->
           JObj(<< <<"kind", JStr("Ordinal")>>, <<"value", JInt(v[2].value)>> >>)
      [] v[1] = "Temperature" ->
           JObj(<< <<"kind", JStr("Temperature")>>,
                   <<"value", JF64(v[2].value)>>,
                   <<"unit", JOpt(v[2].unit)>> >>)
      [] v[1] = "InstantTime" ->
           JObj(<< <<"kind", JStr("InstantTime")>>,
                   <<"value", JStr(v[2].value)>>,
                   <<"grain", JStr(v[2].grain)>>,
                   <<"precision", JStr(v[2].precision)>> >>)
      [] v[1] = "TimeInterval" ->
           JObj(<< <<"kind", JStr("TimeInterval")>>,
                   <<"from", JOpt(v[2].from)>>,
                   <<"to", JOpt(v[2].to)>> >>)
      [] v[1] = "Percentage" ->
           JObj(<< <<"kind", JStr("Percentage")>>,
                   <<"value", JF64(v[2].value)>> >>)

DurationFields ==
    << "years", "quarters", "months", "weeks", "days", "hours", "minutes",
       "seconds" >>

\* Reading a SlotValue back: the "kind" tag selects the variant, whose
\* fields must all be readable.
deserialize_SlotValue(j) ==
    IF j[1] # "obj" \/ ~Reads(j, "kind", {"str"})
    THEN Err(<<"invalid value", "SlotValue">>)
    ELSE LET kind == Field(j, "kind")[2] IN
    CASE kind = "AmountOfMoney" ->
           IF /\ Reads(j, "value", {"f64"})
              /\ Reads(j, "precision", {"str"})
              /\ Reads(j, "unit", {"str", "null"})
           THEN Ok(AmountOfMoneyValue(Field(j, "value")[2],
                                      Field(j, "precision")[2],
                                      OptOf(Field(j, "unit"))))
           ELSE Err(<<"invalid value", "AmountOfMoneyValue">>)
      [] kind = "Duration" ->
           IF /\ \A f \in Range(DurationFields) : Reads(j, f, {"int"})
              /\ Reads(j, "precision", {"str"})
           THEN Ok(DurationValue(Field(j, "years")[2], Field(j, "quarters")[2],
                                 Field(j, "months")[2], Field(j, "weeks")[2],
                                 Field(j, "days")[2], Field(j, "hours")[2],
                                 Field(j, "minutes")[2], Field(j, "seconds")[2],
                                 Field(j, "precision")[2]))
           ELSE Err(<<"invalid value", "DurationValue">>)
      [] kind = "Number" ->
           IF Reads(j, "value", {"f64"})
           THEN Ok(NumberValue(Field(j, "value")[2]))
           ELSE Err(<<"invalid value", "NumberValue">>)
      [] kind = "Ordinal" ->
           IF Reads(j, "value", {"int"})
           THEN Ok(OrdinalValue(Field(j, "value")[2]))
           ELSE Err(<<"invalid value", "OrdinalValue">>)
      [] kind = "Temperature" ->
           IF /\ Reads(j, "value", {"f64"})
              /\ Reads(j, "unit", {"str", "null"})
           THEN Ok(TemperatureValue(Field(j, "value")[2],
                                    OptOf(Field(j, "unit"))))
           ELSE Err(<<"invalid value", "TemperatureValue">>)
      [] kind = "InstantTime" ->
           IF /\ Reads(j, "value", {"str"})
              /\ Reads(j, "grain", {"str"})
              /\ Reads(j, "precision", {"str"})
           THEN Ok(InstantTimeValue(Field(j, "value")[2],
                                    Field(j, "grain")[2],
                                    Field(j, "precision")[2]))
           ELSE Err(<<"invalid value", "InstantTimeValue">>)
      [] kind = "TimeInterval" ->
           IF /\ Reads(j, "from", {"str", "null"})
              /\ Reads(j, "to", {"str", "null"})
           THEN Ok(TimeIntervalValue(OptOf(Field(j, "from")),
                                     OptOf(Field(j, "to"))))
           ELSE Err(<<"invalid value", "TimeIntervalValue">>)
      [] kind = "Percentage" ->
           IF Reads(j, "value", {"f64"})
           THEN Ok(PercentageValue(Field(j, "value")[2]))
           ELSE Err(<<"invalid value", "PercentageValue">>)
      [] OTHER -> Err(<<"unknown variant", kind>>)

\* serde_json::to_string_pretty(&vec![...]): the list of the encoded values.
to_string_pretty(items) ==
    JArr([i \in DOMAIN items |-> serialize_SlotValue(items[i])])

\* The Time arm describing its interval as a six-hour duration.
result_description_interval_as_duration(self) ==
    Ok(to_string_pretty(
    CASE self = "AmountOfMoney" ->
           << AmountOfMoneyValue(1005, "Approximate", Some("{U+20AC}")) >>
      [] self = "Duration" ->
           << DurationValue(0, 0, 3, 0, 0, 0, 0, 0, "Exact") >>
      [] self = "Number" -> << NumberValue(4200) >>
      [] self = "Ordinal" -> << OrdinalValue(2) >>
      [] self = "Temperature" ->
           << TemperatureValue(2300, Some("celsius")),
              TemperatureValue(6000, Some("fahrenheit")) >>
      [] self = "Time" ->
           << InstantTimeValue("2017-06-13 18:00:00 +02:00", "Hour", "Exact"),
              DurationValue(0, 0, 0, 0, 0, 6, 0, 0, "Exact") >>
      [] self = "Percentage" -> << PercentageValue(2000) >>))

\* The Percentage arm holding the ratio 0.2 instead of the percentage 20.
result_description_ratio(self) ==
    Ok(to_string_pretty(
    CASE self = "AmountOfMoney" ->
           << AmountOfMoneyValue(1005, "Approximate", Some("{U+20AC}")) >>
      [] self = "Duration" ->
           << DurationValue(0, 0, 3, 0, 0, 0, 0, 0, "Exact") >>
      [] self = "Number" -> << NumberValue(4200) >>
      [] self = "Ordinal" -> << OrdinalValue(2) >>
      [] self = "Temperature" ->
           << TemperatureValue(2300, Some("celsius")),
              TemperatureValue(6000, Some("fahrenheit")) >>
      [] self = "Time" ->
           << InstantTimeValue("2017-06-13 18:00:00 +02:00", "Hour", "Exact"),
              TimeIntervalValue(Some("2017-06-07 18:00:00 +02:00"),
                                Some("2017-06-08 00:00:00 +02:00")) >>
      [] self = "Percentage" -> << PercentageValue(20) >>))

result_description(self) ==
    Ok(to_string_pretty(
    CASE self = "AmountOfMoney" ->
           << AmountOfMoneyValue(1005, "Approximate", Some("{U+20AC}")) >>
      [] self = "Duration" ->
           << DurationValue(0, 0, 3, 0, 0, 0, 0, 0, "Exact") >>
      [] self = "Number" -> << NumberValue(4200) >>
      [] self = "Ordinal" -> << OrdinalValue(2) >>
      [] self = "Temperature" ->
           << TemperatureValue(2300, Some("celsius")),
              TemperatureValue(6000, Some("fahrenheit")) >>
      [] self = "Time" ->
           << InstantTimeValue("2017-06-13 18:00:00 +02:00", "Hour", "Exact"),
              TimeIntervalValue(Some("2017-06-07 18:00:00 +02:00"),
                                Some("2017-06-08 00:00:00 +02:00")) >>
      [] self = "Percentage" -> << PercentageValue(2000) >>))

(***************************************************************************)
(* BuiltinEntity and its serialization.                                    *)
(***************************************************************************)
BuiltinEntity(value, start, end, entity, entity_kind) ==
    [value |-> value, range |-> [start |-> start, end |-> end],
     entity |-> entity, entity_kind |-> entity_kind]

\* The field written as the variant's own name, as a derived encoding would.
serialize_builtin_entity_kind_as_variant(value) == JStr(value)

serialize_builtin_entity_kind(value) == JStr(identifier(value))

\* An unknown identifier recovered by substituting a kind.
deserialize_builtin_entity_kind_recovering(j) ==
    IF j[1] # "str"
    THEN Err(<<"invalid type", "string">>)
    ELSE IF IsErr(from_identifier(j[2]))
         THEN Ok("Number")
         ELSE from_identifier(j[2])

deserialize_builtin_entity_kind(j) ==
    IF j[1] # "str"
    THEN Err(<<"invalid type", "string">>)
    ELSE IF IsErr(from_identifier(j[2]))
         THEN Err(from_identifier(j[2])[2])
         ELSE from_identifier(j[2])

\* #[derive(Serialize)]: the four fields in declaration order.
serialize_BuiltinEntity(e) ==
    JObj(<< <<"value", JStr(e.value)>>,
            <<"range", JObj(<< <<"start", JInt(e.range.start)>>,
                               <<"end", JInt(e.range.end)>> >>)>>,
            <<"entity", serialize_SlotValue(e.entity)>>,
            <<"entity_kind", serialize_builtin_entity_kind(e.entity_kind)>> >>)

\* The kind whose result_description() shows a SlotValue variant.
KindOfVariant(variant) ==
    IF variant \in {"InstantTime", "TimeInterval"} THEN "Time" ELSE variant

ReadsRange(j) ==
    /\ Reads(j, "range", {"obj"})
    /\ Reads(Field(j, "range"), "start", {"int"})
    /\ Reads(Field(j, "range"), "end", {"int"})

\* A decoder that refuses an entity whose variant is not of the declared kind.
deserialize_BuiltinEntity_cross_checked(j) ==
    IF j[1] # "obj" THEN Err(<<"invalid type", "BuiltinEntity">>)
    ELSE IF ~Reads(j, "value", {"str"}) THEN Err(<<"invalid field", "value">>)
    ELSE IF ~ReadsRange(j) THEN Err(<<"invalid field", "range">>)
    ELSE IF ~HasField(j, "entity") THEN Err(<<"missing field", "entity">>)
    ELSE IF IsErr(deserialize_SlotValue(Field(j, "entity")))
         THEN deserialize_SlotValue(Field(j, "entity"))
    ELSE IF ~HasField(j, "entity_kind") THEN Err(<<"missing field", "entity_kind">>)
    ELSE IF IsErr(deserialize_builtin_entity_kind(Field(j, "entity_kind")))
         THEN deserialize_builtin_entity_kind(Field(j, "entity_kind"))
    ELSE IF KindOfVariant(deserialize_SlotValue(Field(j, "entity"))[2][1])
              # deserialize_builtin_entity_kind(Field(j, "entity_kind"))[2]
         THEN Err(<<"entity does not match", "entity_kind">>)
    ELSE Ok(BuiltinEntity(
                Field(j, "value")[2],
                Field(Field(j, "range"), "start")[2],
                Field(Field(j, "range"), "end")[2],
                deserialize_SlotValue(Field(j, "entity"))[2],
                deserialize_builtin_entity_kind(Field(j, "entity_kind"))[2]))

\* #[derive(Deserialize)]: each field is read on its own, entity_kind
\* through deserialize_builtin_entity_kind; the first failure is returned.
deserialize_BuiltinEntity(j) ==
    IF j[1] # "obj" THEN Err(<<"invalid type", "BuiltinEntity">>)
    ELSE IF ~Reads(j, "value", {"str"}) THEN Err(<<"invalid field", "value">>)
    ELSE IF ~ReadsRange(j) THEN Err(<<"invalid field", "range">>)
    ELSE IF ~HasField(j, "entity") THEN Err(<<"missing field", "entity">>)
    ELSE IF IsErr(deserialize_SlotValue(Field(j, "entity")))
         THEN deserialize_SlotValue(Field(j, "entity"))
    ELSE IF ~HasField(j, "entity_kind") THEN Err(<<"missing field", "entity_kind">>)
    ELSE IF IsErr(deserialize_builtin_entity_kind(Field(j, "entity_kind")))
         THEN deserialize_builtin_entity_kind(Field(j, "entity_kind"))
    ELSE Ok(BuiltinEntity(
                Field(j, "value")[2],
                Field(Field(j, "range"), "start")[2],
                Field(Field(j, "range"), "end")[2],
                deserialize_SlotValue(Field(j, "entity"))[2],
                deserialize_builtin_entity_kind(Field(j, "entity_kind"))[2]))

(***************************************************************************)
(* The inputs a caller draws.                                              *)
(***************************************************************************)
\* Strings handed to from_identifier: the registered identifiers, and
\* strings that differ from one in case, prefix or surrounding whitespace,
\* variant names, and the empty string.
IdentifierInputs ==
    {identifier(k) : k \in BuiltinEntityKind} \cup
    { "", "snips/", "number", "Number", "Time", "datetime", "snips/time",
      "Snips/Number", "SNIPS/NUMBER", "snips/Number", "snips/amountofmoney",
      "snips/AmountOfMoney", " snips/number", "snips/number ",
      "snips/number\n", "snips/datetim", "snips/datetimes", "snips/date",
      "snips:percentage", "/snips/percentage", "snips/percent" }

Offsets == 0 .. MaxOffset

\* The values result_description() builds, the one of the serialization
\* test, and values whose optional fields are absent.
SlotValues ==
    { AmountOfMoneyValue(1005, "Approximate", Some("{U+20AC}")),
      AmountOfMoneyValue(1005, "Exact", None),
      DurationValue(0, 0, 3, 0, 0, 0, 0, 0, "Exact"),
      NumberValue(4200),
      OrdinalValue(2),
      TemperatureValue(2300, Some("celsius")),
      TemperatureValue(6000, Some("fahrenheit")),
      TemperatureValue(2300, None),
      InstantTimeValue("2017-06-13 18:00:00 +02:00", "Hour", "Exact"),
      InstantTimeValue("some_value", "Year", "Exact"),
      TimeIntervalValue(Some("2017-06-07 18:00:00 +02:00"),
                        Some("2017-06-08 00:00:00 +02:00")),
      TimeIntervalValue(Some("2017-06-07 18:00:00 +02:00"), None),
      PercentageValue(2000) }

\* The record of test_builtin_entity_ser_de.
TestEntity ==
    BuiltinEntity("hello", 12, 42,
                  InstantTimeValue("some_value", "Year", "Exact"), "Time")

\* Any combination of the four public fields is a BuiltinEntity.
Entities ==
    { BuiltinEntity(v, s, e, sv, k) :
        v \in {"hello", ""}, s \in Offsets, e \in Offsets, sv \in SlotValues,
        k \in BuiltinEntityKind } \cup {TestEntity}

WithEntityKind(j, s) ==
    JObj([i \in DOMAIN j[2] |->
            IF j[2][i][1] = "entity_kind" THEN <<"entity_kind", JStr(s)>>
            ELSE j[2][i]])

Without(j, name) == JObj(SelectSeq(j[2], LAMBDA f : f[1] # name))

\* Serialized records as they may arrive: written by serialize, with any
\* string as entity_kind, with a field missing, or with an unknown variant.
WireInputs ==
    { WithEntityKind(serialize_BuiltinEntity(e), s) :
        e \in Entities, s \in IdentifierInputs } \cup
    { Without(serialize_BuiltinEntity(TestEntity), name) :
        name \in {"value", "range", "entity", "entity_kind"} } \cup
    { JObj(<< <<"value", JStr("hello")>>,
              <<"range", JObj(<< <<"start", JInt(0)>>, <<"end", JInt(1)>> >>)>>,
              <<"entity", JObj(<< <<"kind", JStr("Date")>> >>)>>,
              <<"entity_kind", JStr("snips/datetime")>> >>) }

(***************************************************************************)
(* The caller: idle, or holding the operation it invoked, the argument it  *)
(* passed and the value returned.                                          *)
(***************************************************************************)
Init ==
    /\ op = "idle"
    /\ arg = << >>
    /\ ret = << >>

Identifier ==
    /\ op = "idle"
    /\ \E k \in BuiltinEntityKind :
        /\ op' = "identifier"
        /\ arg' = k
        /\ ret' = identifier(k)

FromIdentifier ==
    /\ op = "idle"
    /\ \E s \in IdentifierInputs :
        /\ op' = "from_identifier"
        /\ arg' = s
        /\ ret' = from_identifier(s)

\* from_identifier applied to what identifier() returned.
IdentifierRoundTrip ==
    /\ op = "identifier"
    /\ op' = "identifier_round_trip"
    /\ arg' = arg
    /\ ret' = from_identifier(ret)

Examples ==
    /\ op = "idle"
    /\ \E k \in BuiltinEntityKind, l \in Language :
        /\ op' = "examples"
        /\ arg' = <<k, l>>
        /\ ret' = examples(k, l)

SupportedLanguages ==
    /\ op = "idle"
    /\ \E k \in BuiltinEntityKind :
        /\ op' = "supported_languages"
        /\ arg' = k
        /\ ret' = supported_languages(k)

ResultDescription ==
    /\ op = "idle"
    /\ \E k \in BuiltinEntityKind :
        /\ op' = "result_description"
        /\ arg' = k
        /\ ret' = result_description(k)

Serialize ==
    /\ op = "idle"
    /\ \E e \in Entities :
        /\ op' = "serialize"
        /\ arg' = e
        /\ ret' = serialize_BuiltinEntity(e)

\* assert_tokens: what was serialized is deserialized again.
SerDe ==
    /\ op = "serialize"
    /\ op' = "ser_de"
    /\ arg' = arg
    /\ ret' = deserialize_BuiltinEntity(ret)

Deserialize ==
    /\ op = "idle"
    /\ \E w \in WireInputs :
        /\ op' = "deserialize"
        /\ arg' = w
        /\ ret' = deserialize_BuiltinEntity(w)

Return ==
    /\ op # "idle"
    /\ op' = "idle"
    /\ arg' = << >>
    /\ ret' = << >>

Next ==
    \/ Identifier
    \/ FromIdentifier
    \/ IdentifierRoundTrip
    \/ Examples
    \/ SupportedLanguages
    \/ ResultDescription
    \/ Serialize
    \/ SerDe
    \/ Deserialize
    \/ Return

Spec == Init /\ [][Next]_vars

(***************************************************************************)
(* Properties.                                                             *)
(***************************************************************************)
RegisteredIdentifiers == {identifier(k) : k \in BuiltinEntityKind}

\* A serialized record with its four fields, a decodable entity and a
\* string as entity_kind.
WellFormed(j) ==
    /\ j[1] = "obj"
    /\ Reads(j, "value", {"str"})
    /\ ReadsRange(j)
    /\ HasField(j, "entity")
    /\ IsOk(deserialize_SlotValue(Field(j, "entity")))
    /\ Reads(j, "entity_kind", {"str"})

\* C1: from_identifier(k.identifier()) succeeds and returns k for each of
\* the seven kinds, and no two kinds share an identifier.
C1_IdentifierRoundTrip ==
    /\ op = "identifier_round_trip" => IsOk(ret) /\ ret[2] = arg
    /\ op = "identifier" =>
         \A k \in BuiltinEntityKind : identifier(k) = ret => k = arg
    /\ op = "from_identifier" =>
         \A k \in BuiltinEntityKind :
            arg = identifier(k) => IsOk(ret) /\ ret[2] = k

C1_Witness ==
    /\ op = "identifier_round_trip"
    /\ arg = "Percentage"
    /\ ret = Ok("Percentage")

\* C2: from_identifier fails with the unknown-identifier error on every
\* string that is not exactly a registered identifier, among them strings
\* that differ from one only in case, prefix or surrounding whitespace.
C2_UnknownIdentifierRejected ==
    op = "from_identifier" =>
      /\ arg \notin RegisteredIdentifiers =>
           IsErr(ret) /\ ret[2] = UnknownIdentifier(arg)
      /\ arg \in { "Snips/Number", "SNIPS/NUMBER", "snips/Number", "number",
                   "/snips/percentage", " snips/number", "snips/number " } =>
           IsErr(ret)

C2_Witness ==
    /\ op = "from_identifier"
    /\ arg = "snips/number "
    /\ IsErr(ret)

\* C3 as stated: every BuiltinEntity obtained by deserialization has an
\* entity variant that belongs to its entity_kind.
C3_VariantMatchesKind ==
    op = "deserialize" /\ IsOk(ret) =>
      KindOfVariant(ret[2].entity[1]) = ret[2].entity_kind

\* C3 as amended: entity and entity_kind are decoded independently of each
\* other.  A well-formed record whose entity_kind is a registered identifier
\* is accepted whatever the variant of its entity, keeping the variant as
\* written and the kind that entity_kind names.
C3_FieldsDecodedIndependently ==
    op = "deserialize" /\ WellFormed(arg)
      /\ Field(arg, "entity_kind")[2] \in RegisteredIdentifiers =>
        /\ IsOk(ret)
        /\ ret[2].entity[1] = Field(Field(arg, "entity"), "kind")[2]
        /\ identifier(ret[2].entity_kind) = Field(arg, "entity_kind")[2]

C3_Witness ==
    /\ op = "deserialize"
    /\ WellFormed(arg)
    /\ Field(arg, "entity_kind") = JStr("snips/datetime")
    /\ IsOk(ret)
    /\ ret[2].entity[1] = "Percentage"
    /\ ret[2].entity_kind = "Time"

\* C4: a serialized BuiltinEntity has exactly the fields value, range
\* {start, end}, entity and entity_kind, entity_kind being the string
\* identifier() of its kind, and deserializing it yields the record again.
C4_SerDeRoundTrip ==
    /\ op = "serialize" =>
         /\ ret[1] = "obj"
         /\ FieldNames(ret) = << "value", "range", "entity", "entity_kind" >>
         /\ Field(ret, "value") = JStr(arg.value)
         /\ Field(ret, "range") =
              JObj(<< <<"start", JInt(arg.range.start)>>,
                      <<"end", JInt(arg.range.end)>> >>)
         /\ Field(Field(ret, "entity"), "kind") = JStr(arg.entity[1])
         /\ Field(ret, "entity_kind") = JStr(identifier(arg.entity_kind))
         /\ arg.entity_kind = "Time" =>
              Field(ret, "entity_kind") = JStr("snips/datetime")
    /\ op = "ser_de" => IsOk(ret) /\ ret[2] = arg

C4_Witness ==
    /\ op = "ser_de"
    /\ arg = TestEntity
    /\ ret = Ok(TestEntity)

\* C5: deserializing a record whose entity_kind is a string that matches no
\* registered identifier fails; no kind is substituted.
C5_UnknownKindFails ==
    op = "deserialize" /\ arg[1] = "obj" /\ Reads(arg, "entity_kind", {"str"})
      /\ Field(arg, "entity_kind")[2] \notin RegisteredIdentifiers =>
        /\ IsErr(ret)
        /\ WellFormed(arg) =>
             ret[2] = UnknownIdentifier(Field(arg, "entity_kind")[2])

C5_Witness ==
    /\ op = "deserialize"
    /\ WellFormed(arg)
    /\ Field(arg, "entity_kind") = JStr("Time")
    /\ ret = Err(UnknownIdentifier("Time"))

\* C6: Percentage supports exactly DE, EN, ES, FR and JA, every other kind
\* exactly the six languages, and no list names a language twice.
C6_SupportedLanguages ==
    op = "supported_languages" =>
      /\ Range(ret) =
           IF arg = "Percentage"
           THEN {"DE", "EN", "ES", "FR", "JA"}
           ELSE {"DE", "EN", "ES", "FR", "JA", "KO"}
      /\ Len(ret) = Cardinality(Range(ret))

C6_Witness ==
    /\ op = "supported_languages"
    /\ arg = "Percentage"
    /\ "KO" \notin Range(ret)
    /\ Len(ret) = 5

\* C7: for a kind and a language it supports, the example list is empty
\* exactly when the language is Japanese and the kind is not Number.
C7_ExamplesOfSupportedPairs ==
    op = "examples" /\ arg[2] \in Range(supported_languages(arg[1])) =>
      (ret = << >> <=> arg[2] = "JA" /\ arg[1] # "Number")

C7_Witness ==
    /\ op = "examples"
    /\ arg = <<"Number", "JA">>
    /\ Len(ret) = 3

\* C8: result_description succeeds for every kind with a list of one or
\* more values whose variants are of that kind: the variant named like the
\* kind, and for Time one InstantTime and one TimeInterval.
C8_ResultDescriptionVariants ==
    op = "result_description" =>
      /\ IsOk(ret)
      /\ ret[2][1] = "arr"
      /\ Len(ret[2][2]) >= 1
      /\ \A i \in DOMAIN ret[2][2] :
           /\ Reads(ret[2][2][i], "kind", {"str"})
           /\ KindOfVariant(Field(ret[2][2][i], "kind")[2]) = arg
      /\ arg = "Time" =>
           /\ Len(ret[2][2]) = 2
           /\ {Field(ret[2][2][i], "kind")[2] : i \in DOMAIN ret[2][2]} =
                {"InstantTime", "TimeInterval"}

C8_Witness ==
    /\ op = "result_description"
    /\ arg = "Time"
    /\ IsOk(ret)
    /\ Len(ret[2][2]) = 2

\* C9: result_description of Percentage is a list of the single element
\* {kind: "Percentage", value: 20.0}.
C9_PercentageDescription ==
    op = "result_description" /\ arg = "Percentage" =>
      ret = Ok(JArr(<< JObj(<< <<"kind", JStr("Percentage")>>,
                               <<"value", JF64(2000)>> >>) >>))

C9_Witness ==
    /\ op = "result_description"
    /\ arg = "Percentage"
    /\ IsOk(ret)
    /\ Len(ret[2][2]) = 1

\* C10: a kind has examples only in languages it supports: the one
\* unsupported pair, Percentage in Korean, has none.
C10_ExamplesOnlyWhereSupported ==
    op = "examples" =>
      /\ ret # << >> => arg[2] \in Range(supported_languages(arg[1]))
      /\ arg[2] \notin Range(supported_languages(arg[1])) =>
           arg = <<"Percentage", "KO">> /\ ret = << >>

C10_Witness ==
    /\ op = "examples"
    /\ arg = <<"Percentage", "KO">>
    /\ ret = << >>

====
